---- MODULE Spec2Model ----
(***************************************************************************)
(* Model of server.py: the process entry point                             *)
(*                                                                         *)
(*     async def main():                                                   *)
(*         async with create_server() as server:                           *)
(*             await server.run()                                          *)
(*                                                                         *)
(*     if __name__ == "__main__":                                          *)
(*         asyncio.run(main())                                             *)
(*                                                                         *)
(* create_server and the object it returns are external (wikipedia_mcp);   *)
(* they are the environment of the model: every operation on them may      *)
(* return or raise any exception.  `async with` is expanded as the         *)
(* language defines it: await __aenter__(), bind, run the body, and on     *)
(* leaving the body await __aexit__(exc info), re-raising the body's       *)
(* exception unless __aexit__ returned a true value.  asyncio.run drives   *)
(* main() as the single task of a fresh event loop (its behaviour on an    *)
(* interrupt is that of asyncio.Runner: the main task is cancelled, i.e.   *)
(* CancelledError is thrown into the operation main() is awaiting).  The   *)
(* script installs no signal handler, so a termination signal (SIGTERM)    *)
(* has its default disposition: the process dies where it stands.          *)
(***************************************************************************)
EXTENDS Integers, Sequences, FiniteSets

\* Number of distinct ordinary exceptions the external operations may raise.
MaxExc == 2

\* Number of interrupts (task cancellations) that may be delivered in one run.
MaxInterrupts == 2

VARIABLES
    pc,            \* where the process is: start, created, aenter, run, aexit, done, killed
    trace,         \* calls made on the external package, and their ends, in order
    inflight,      \* server operations started and not yet ended
    exc,           \* exception leaving the body of the async with (NoExc: none)
    createResult,  \* outcome of create_server()
    enterResult,   \* outcome of __aenter__()
    runResult,     \* outcome of server.run()
    exitResult,    \* outcome of __aexit__(); value = truthiness of what it returned
    mainResult,    \* outcome of main()
    status,        \* process exit status, -1 while the process is alive
    cancelledIn,   \* operations into which an interrupt threw CancelledError
    interrupts,    \* interrupts delivered so far
    termIn         \* pc at which SIGTERM arrived, "none" if it did not

vars == <<pc, trace, inflight, exc, createResult, enterResult, runResult,
          exitResult, mainResult, status, cancelledIn, interrupts, termIn>>

----------------------------------------------------------------------------
\* Exceptions and outcomes

NoExc == [type |-> "None", id |-> 0]

CancelledError == [type |-> "CancelledError", id |-> 0]

Exceptions == {CancelledError} \cup {[type |-> "Exception", id |-> i] : i \in 1..MaxExc}

Pending == [kind |-> "pending", exc |-> NoExc, value |-> FALSE]

Returned(v) == [kind |-> "returned", exc |-> NoExc, value |-> v]

Raised(e) == [kind |-> "raised", exc |-> e, value |-> FALSE]

\* Positions at which main() is suspended on an awaited server operation.
Suspended == {"aenter", "run", "aexit"}

\* The server operation awaited at a suspended position.
OpAt(p) == CASE p = "aenter" -> "enter" [] p = "run" -> "run" [] p = "aexit" -> "exit"

\* Number of occurrences of event ev in the trace.
Count(ev) == Cardinality({i \in 1..Len(trace) : trace[i] = ev})

\* Position of the first occurrence of ev in the trace, 0 if there is none.
Index(ev) ==
    IF \E i \in 1..Len(trace) : trace[i] = ev
    THEN CHOOSE i \in 1..Len(trace) : trace[i] = ev /\ \A j \in 1..(i-1) : trace[j] # ev
    ELSE 0

\* The calls made on the server handle, in order (ends and the factory call dropped).
ServerCalls == SelectSeq(trace, LAMBDA ev : ev \in {"enter", "run", "exit"})

----------------------------------------------------------------------------
\* The process

Init ==
    /\ pc = "start"
    /\ trace = <<>>
    /\ inflight = {}
    /\ exc = NoExc
    /\ createResult = Pending
    /\ enterResult = Pending
    /\ runResult = Pending
    /\ exitResult = Pending
    /\ mainResult = Pending
    /\ status = -1
    /\ cancelledIn = {}
    /\ interrupts = 0
    /\ termIn = "none"

\* Variant: the call of asyncio.run is wrapped in a handler that swallows the
\* failure, so the script ends normally.
MainRaises_Swallowed(e) ==
    /\ mainResult' = Raised(e)
    /\ status' = 0
    /\ pc' = "done"

\* main() ends by raising e: asyncio.run re-raises it, nothing catches it at
\* module level, the interpreter prints the traceback and exits non-zero.
MainRaises(e) ==
    /\ mainResult' = Raised(e)
    /\ status' = 1
    /\ pc' = "done"

\* main() returns: asyncio.run returns, the script ends, exit status 0.
MainReturns ==
    /\ mainResult' = Returned(FALSE)
    /\ status' = 0
    /\ pc' = "done"

\* create_server() returns the context manager.
CreateServerReturns ==
    /\ pc = "start"
    /\ trace' = Append(trace, "create")
    /\ createResult' = Returned(FALSE)
    /\ pc' = "created"
    /\ UNCHANGED <<inflight, exc, enterResult, runResult, exitResult, mainResult,
                   status, cancelledIn, interrupts, termIn>>

\* Variant: a failed construction is retried once.
CreateServerRaises_Retry(e) ==
    /\ pc = "start"
    /\ Count("create") < 2
    /\ trace' = Append(trace, "create")
    /\ createResult' = Raised(e)
    /\ UNCHANGED <<pc, inflight, exc, enterResult, runResult, exitResult, mainResult,
                   status, cancelledIn, interrupts, termIn>>

\* create_server() raises e: the async with is never entered.
CreateServerRaises(e) ==
    /\ pc = "start"
    /\ trace' = Append(trace, "create") \o <<"main_end">>
    /\ createResult' = Raised(e)
    /\ MainRaises(e)
    /\ UNCHANGED <<inflight, exc, enterResult, runResult, exitResult,
                   cancelledIn, interrupts, termIn>>

\* async with: __aenter__() is called and awaited.
AenterCall ==
    /\ pc = "created"
    /\ trace' = Append(trace, "enter")
    /\ inflight' = inflight \cup {"enter"}
    /\ pc' = "aenter"
    /\ UNCHANGED <<exc, createResult, enterResult, runResult, exitResult, mainResult,
                   status, cancelledIn, interrupts, termIn>>

\* Variant: run() is started as a background task instead of being awaited,
\* so the body ends at once and __aexit__ is called while run is in flight.
AenterReturns_Spawn ==
    /\ pc = "aenter"
    /\ enterResult' = Returned(FALSE)
    /\ exc' = NoExc
    /\ trace' = trace \o <<"enter_end", "run", "exit">>
    /\ inflight' = (inflight \ {"enter"}) \cup {"run", "exit"}
    /\ pc' = "aexit"
    /\ UNCHANGED <<createResult, runResult, exitResult, mainResult,
                   status, cancelledIn, interrupts, termIn>>

\* __aenter__() returns; its value is bound to server, server.run() is called
\* and awaited.
AenterReturns ==
    /\ pc = "aenter"
    /\ enterResult' = Returned(FALSE)
    /\ trace' = trace \o <<"enter_end", "run">>
    /\ inflight' = (inflight \ {"enter"}) \cup {"run"}
    /\ pc' = "run"
    /\ UNCHANGED <<exc, createResult, runResult, exitResult, mainResult,
                   status, cancelledIn, interrupts, termIn>>

\* Variant: entry is placed inside a try/finally, so a failed __aenter__ is
\* still followed by __aexit__.
AenterRaises_Finally(e) ==
    /\ pc = "aenter"
    /\ enterResult' = Raised(e)
    /\ exc' = e
    /\ trace' = trace \o <<"enter_end", "exit">>
    /\ inflight' = (inflight \ {"enter"}) \cup {"exit"}
    /\ pc' = "aexit"
    /\ UNCHANGED <<createResult, runResult, exitResult, mainResult,
                   status, cancelledIn, interrupts, termIn>>

\* __aenter__() raises e: the body is not run and __aexit__ is not called.
AenterRaises(e) ==
    /\ pc = "aenter"
    /\ enterResult' = Raised(e)
    /\ trace' = trace \o <<"enter_end", "main_end">>
    /\ inflight' = inflight \ {"enter"}
    /\ MainRaises(e)
    /\ UNCHANGED <<exc, createResult, runResult, exitResult,
                   cancelledIn, interrupts, termIn>>

\* Variant: the handle is entered by hand and never exited after run().
RunReturns_NoExit ==
    /\ pc = "run"
    /\ runResult' = Returned(FALSE)
    /\ trace' = trace \o <<"run_end", "main_end">>
    /\ inflight' = inflight \ {"run"}
    /\ MainReturns
    /\ UNCHANGED <<exc, createResult, enterResult, exitResult,
                   cancelledIn, interrupts, termIn>>

\* server.run() returns: the body ends normally, __aexit__(None, None, None)
\* is called and awaited.
RunReturns ==
    /\ pc = "run"
    /\ runResult' = Returned(FALSE)
    /\ exc' = NoExc
    /\ trace' = trace \o <<"run_end", "exit">>
    /\ inflight' = (inflight \ {"run"}) \cup {"exit"}
    /\ pc' = "aexit"
    /\ UNCHANGED <<createResult, enterResult, exitResult, mainResult,
                   status, cancelledIn, interrupts, termIn>>

\* Variant: __aexit__ is called only after a normal run(); a failure of run()
\* leaves main() at once.
RunRaises_NoCleanup(e) ==
    /\ pc = "run"
    /\ runResult' = Raised(e)
    /\ exc' = e
    /\ trace' = trace \o <<"run_end", "main_end">>
    /\ inflight' = inflight \ {"run"}
    /\ MainRaises(e)
    /\ UNCHANGED <<createResult, enterResult, exitResult,
                   cancelledIn, interrupts, termIn>>

\* server.run() raises e: the body ends with e, __aexit__(type(e), e, tb) is
\* called and awaited.
RunRaises(e) ==
    /\ pc = "run"
    /\ runResult' = Raised(e)
    /\ exc' = e
    /\ trace' = trace \o <<"run_end", "exit">>
    /\ inflight' = (inflight \ {"run"}) \cup {"exit"}
    /\ pc' = "aexit"
    /\ UNCHANGED <<createResult, enterResult, exitResult, mainResult,
                   status, cancelledIn, interrupts, termIn>>

\* Variant: the value __aexit__ returns is ignored (a try/finally instead of
\* a context manager): the body's exception is always re-raised.
AexitReturns_IgnoreValue(v) ==
    /\ pc = "aexit"
    /\ exitResult' = Returned(v)
    /\ trace' = trace \o <<"exit_end", "main_end">>
    /\ inflight' = inflight \ {"exit"}
    /\ IF exc # NoExc THEN MainRaises(exc) ELSE MainReturns
    /\ UNCHANGED <<exc, createResult, enterResult, runResult,
                   cancelledIn, interrupts, termIn>>

\* __aexit__() returns a value of truthiness v: the body's exception, if any,
\* is re-raised unless v is true.
AexitReturns(v) ==
    /\ pc = "aexit"
    /\ exitResult' = Returned(v)
    /\ trace' = trace \o <<"exit_end", "main_end">>
    /\ inflight' = inflight \ {"exit"}
    /\ IF exc # NoExc /\ ~v THEN MainRaises(exc) ELSE MainReturns
    /\ UNCHANGED <<exc, createResult, enterResult, runResult,
                   cancelledIn, interrupts, termIn>>

\* Variant: a failed __aexit__ is retried once before its failure leaves main().
AexitRaises_Retry(e) ==
    /\ pc = "aexit"
    /\ exitResult' = Raised(e)
    /\ IF Count("exit") < 2
       THEN /\ trace' = trace \o <<"exit_end", "exit">>
            /\ UNCHANGED <<pc, inflight, mainResult, status>>
       ELSE /\ trace' = trace \o <<"exit_end", "main_end">>
            /\ inflight' = inflight \ {"exit"}
            /\ MainRaises(e)
    /\ UNCHANGED <<exc, createResult, enterResult, runResult,
                   cancelledIn, interrupts, termIn>>

\* __aexit__() raises e: e leaves main() (the body's exception, if any, is
\* only its __context__).
AexitRaises(e) ==
    /\ pc = "aexit"
    /\ exitResult' = Raised(e)
    /\ trace' = trace \o <<"exit_end", "main_end">>
    /\ inflight' = inflight \ {"exit"}
    /\ MainRaises(e)
    /\ UNCHANGED <<exc, createResult, enterResult, runResult,
                   cancelledIn, interrupts, termIn>>

\* An interrupt while main() is suspended: asyncio.run cancels the main task,
\* CancelledError is thrown into the awaited operation.  What the operation
\* does with it (propagate it, raise something else, return) is its own
\* outcome, taken by the Returns/Raises actions.
Interrupt ==
    /\ pc \in Suspended
    /\ interrupts < MaxInterrupts
    /\ interrupts' = interrupts + 1
    /\ cancelledIn' = cancelledIn \cup {OpAt(pc)}
    /\ UNCHANGED <<pc, trace, inflight, exc, createResult, enterResult, runResult,
                   exitResult, mainResult, status>>
    /\ UNCHANGED termIn

\* SIGTERM: no handler is installed, the process is killed at once; no Python
\* code runs after it.
Sigterm ==
    /\ pc \notin {"done", "killed"}
    /\ termIn' = pc
    /\ pc' = "killed"
    /\ status' = 143
    /\ UNCHANGED <<trace, inflight, exc, createResult, enterResult, runResult,
                   exitResult, mainResult, cancelledIn, interrupts>>

Next ==
    \/ CreateServerReturns
    \/ \E e \in Exceptions : CreateServerRaises(e)
    \/ AenterCall
    \/ AenterReturns
    \/ \E e \in Exceptions : AenterRaises(e)
    \/ RunReturns
    \/ \E e \in Exceptions : RunRaises(e)
    \/ \E v \in BOOLEAN : AexitReturns(v)
    \/ \E e \in Exceptions : AexitRaises(e)
    \/ Interrupt
    \/ Sigterm

Spec == Init /\ [][Next]_vars

----------------------------------------------------------------------------
\* Lifecycle of the scope opened by the async with: Unstarted until
\* __aenter__ has returned, Running while the body runs, Stopped once
\* __aexit__ has been called.
Lifecycle ==
    IF Count("exit") > 0 THEN "Stopped"
    ELSE IF enterResult.kind = "returned" THEN "Running"
    ELSE "Unstarted"

\* The process has ended, one way or the other.
Terminated == pc \in {"done", "killed"}

----------------------------------------------------------------------------
\* C1: when enter-scope and run both return normally, main() calls enter-scope,
\* then run, then exit-scope, in that order, each exactly once (and each call
\* starts only after the previous operation has ended).
C1_EnterRunExitOnce ==
    (enterResult.kind = "returned" /\ runResult.kind = "returned") =>
        /\ ServerCalls = <<"enter", "run", "exit">>
        /\ Index("enter_end") < Index("run")
        /\ Index("run_end") < Index("exit")
        /\ (pc = "done" => Count("exit_end") = 1)

C1_Witness ==
    /\ pc = "done"
    /\ enterResult.kind = "returned"
    /\ runResult.kind = "returned"
    /\ exitResult.kind = "returned"
    /\ mainResult.kind = "returned"

\* C2: when enter-scope raises, run and exit-scope are never called and main()
\* ends by raising that same exception.
C2_EnterFailureSkipsRunAndExit ==
    enterResult.kind = "raised" =>
        /\ Count("run") = 0
        /\ Count("exit") = 0
        /\ mainResult = Raised(enterResult.exc)

C2_Witness ==
    /\ pc = "done"
    /\ enterResult.kind = "raised"
    /\ enterResult.exc.type = "Exception"

\* C3: when run raises after enter-scope succeeded, exit-scope is called
\* exactly once, after run has ended and before main() ends.
C3_RunFailureStillExits ==
    (enterResult.kind = "returned" /\ runResult.kind = "raised") =>
        /\ Count("exit") = 1
        /\ Index("run_end") > 0
        /\ Index("run_end") < Index("exit")
        /\ (Count("main_end") > 0 => Index("exit") < Index("main_end"))

C3_Witness ==
    /\ pc = "done"
    /\ runResult.kind = "raised"
    /\ mainResult = Raised(runResult.exc)

\* C4: when an interrupt or a termination signal arrives while main() is
\* suspended on run, exit-scope has been called by the time the process has
\* terminated.
C4_ExitCalledOnExternalCancel ==
    (Terminated /\ ("run" \in cancelledIn \/ termIn = "run")) => Count("exit") >= 1

\* The interrupt half of C4 alone: after an interrupt during run, a process
\* that ends through main() has called exit-scope.
InterruptDuringRunReleases ==
    (pc = "done" /\ "run" \in cancelledIn) => Count("exit") = 1

AnyFailure ==
    \E r \in {createResult, enterResult, runResult, exitResult} : r.kind = "raised"

\* C6 as stated: every failure of the factory, enter-scope, run or exit-scope
\* ends the process with a non-zero status; status 0 only when run and
\* exit-scope both completed without failure.
C6_Original ==
    pc = "done" =>
        /\ AnyFailure => (status # 0 /\ mainResult.kind = "raised")
        /\ status = 0 => (runResult.kind = "returned" /\ exitResult.kind = "returned")

\* C6 as amended: a failure of the factory, of enter-scope or of exit-scope
\* always ends the process with a non-zero status; a failure of run does so
\* unless exit-scope returns a true value; the status is 0 exactly when
\* exit-scope returned and either run returned or exit-scope returned true.
C6_FailuresReachBoundary ==
    pc = "done" =>
        /\ (createResult.kind = "raised" \/ enterResult.kind = "raised"
                \/ exitResult.kind = "raised")
              => (status # 0 /\ mainResult.kind = "raised")
        /\ (runResult.kind = "raised" /\ exitResult = Returned(FALSE))
              => (status # 0 /\ mainResult = Raised(runResult.exc))
        /\ status = 0 <=>
              /\ exitResult.kind = "returned"
              /\ (runResult.kind = "returned" \/ exitResult.value)

C6_Witness ==
    /\ pc = "done"
    /\ runResult.kind = "raised"
    /\ exitResult = Returned(TRUE)
    /\ status = 0

\* One step of the lifecycle: it stays, or moves Unstarted -> Running, or
\* Running -> Stopped.
LifecycleStep ==
    \/ Lifecycle' = Lifecycle
    \/ Lifecycle = "Unstarted" /\ Lifecycle' = "Running"
    \/ Lifecycle = "Running" /\ Lifecycle' = "Stopped"

C8_FactoryCalledAtMostOnce ==
    /\ Count("create") <= 1
    /\ pc = "done" => Count("create") = 1

C8_Witness ==
    /\ pc = "done"
    /\ exitResult.kind = "raised"
    /\ runResult.kind = "raised"
    /\ Count("create") = 1

\* C9 as stated: run is the only operation main() is ever suspended on.
C9_Original == inflight \subseteq {"run"}

\* C9 as amended: main() suspends on enter-scope, on run and on exit-scope,
\* one after the other; at most one server operation is in flight at any
\* moment, and it is the one main() is suspended on.
C9_OneOperationInFlight ==
    /\ Cardinality(inflight) <= 1
    /\ pc \in Suspended => inflight = {OpAt(pc)}
    /\ pc \in {"start", "created", "done"} => inflight = {}

C9_Witness ==
    /\ pc = "aexit"
    /\ inflight = {"exit"}
    /\ runResult.kind = "raised"

\* C10: when run raises, exit-scope decides what leaves main(): a true return
\* value makes main() return normally (exit status 0), an exception from
\* exit-scope replaces the run failure, and only a false return value lets the
\* run failure itself propagate.
C10_ExitDecidesPropagation ==
    (pc = "done" /\ runResult.kind = "raised") =>
        /\ exitResult = Returned(TRUE) =>
              (mainResult = Returned(FALSE) /\ status = 0)
        /\ exitResult.kind = "raised" =>
              (mainResult = Raised(exitResult.exc) /\ status # 0)
        /\ exitResult = Returned(FALSE) =>
              (mainResult = Raised(runResult.exc) /\ status # 0)

C10_Witness ==
    /\ pc = "done"
    /\ runResult.kind = "raised"
    /\ exitResult.kind = "raised"
    /\ exitResult.exc # runResult.exc
    /\ mainResult = Raised(exitResult.exc)

====
